---- MODULE Spec2Model ----
(***************************************************************************)
(* Day 1 dial puzzle: parse_rotation, apply_rotation_with_zero_count and   *)
(* solve_puzzle of src/day_1/src/puzzle_engine.rs (main.rs holds the same  *)
(* three functions verbatim).                                              *)
(*                                                                         *)
(* A line is a sequence of characters; a character is a one-character      *)
(* string, except "e'" which stands for U+00E9 (two bytes in UTF-8).       *)
(***************************************************************************)
EXTENDS Integers, Sequences, FiniteSets, TLC

VARIABLES
    lines,       \* input.lines(): the lines of the input text, in order
    idx,         \* number of lines the for loop of solve_puzzle has taken
    position,    \* solve_puzzle: let mut position
    count,       \* solve_puzzle: let mut count
    warnings,    \* stderr: one <<line, kind>> per eprintln! of solve_puzzle
    pc,          \* "lines" | "rotate" | "returned" | "done"
    start,       \* apply_rotation_with_zero_count: parameter position
    direction,   \* apply_rotation_with_zero_count: parameter direction
    distance,    \* apply_rotation_with_zero_count: parameter distance
    current,     \* apply_rotation_with_zero_count: let mut current
    zero_count,  \* apply_rotation_with_zero_count: let mut zero_count
    i,           \* iterations the range 0..distance has yielded so far
    ret,         \* the tuple apply_rotation_with_zero_count returned last
    plan,        \* caller of the composition scenario: [p, m1, m2]
    rets         \* the tuples the caller has received so far, in order

vars == <<lines, idx, position, count, warnings, pc, start, direction,
          distance, current, zero_count, i, ret, plan, rets>>

-----------------------------------------------------------------------------
(* Bounds of the model *)

MaxLines == 2
MaxMag == 150
NegMag == 3
MaxPart == 10

-----------------------------------------------------------------------------
(* Program constants *)

DialSize == 100
InitialPosition == 50
I32Max == 2147483647
I32Min == 0 - I32Max - 1

-----------------------------------------------------------------------------
(* Characters and strings *)

Digits == {"0", "1", "2", "3", "4", "5", "6", "7", "8", "9"}

White == {" ", "\t"}

NonAscii == {"e'"}

\* str::len counts bytes of the UTF-8 encoding.
Utf8Len(c) == IF c \in NonAscii THEN 2 ELSE 1

RECURSIVE ByteLen(_)
ByteLen(s) == IF s = <<>> THEN 0 ELSE Utf8Len(Head(s)) + ByteLen(Tail(s))

RECURSIVE TrimStart(_)
TrimStart(s) ==
    IF s # <<>> /\ Head(s) \in White THEN TrimStart(Tail(s)) ELSE s

RECURSIVE TrimEnd(_)
TrimEnd(s) ==
    IF s # <<>> /\ s[Len(s)] \in White
    THEN TrimEnd(SubSeq(s, 1, Len(s) - 1))
    ELSE s

\* str::trim
Trim(s) == TrimEnd(TrimStart(s))

DigitVal(c) ==
    CASE c = "0" -> 0 [] c = "1" -> 1 [] c = "2" -> 2 [] c = "3" -> 3
      [] c = "4" -> 4 [] c = "5" -> 5 [] c = "6" -> 6 [] c = "7" -> 7
      [] c = "8" -> 8 [] c = "9" -> 9

Ok(v)  == [ok |-> TRUE, val |-> v]
Err(k) == [ok |-> FALSE, val |-> k]

\* from_str_radix on a number without a minus sign: for each digit,
\* result.checked_mul(10) then checked_add(digit).
RECURSIVE AccumulateUp(_, _)
AccumulateUp(acc, s) ==
    IF s = <<>> THEN Ok(acc)
    ELSE IF acc > I32Max \div 10 THEN Err("PosOverflow")
    ELSE IF acc * 10 > I32Max - DigitVal(Head(s)) THEN Err("PosOverflow")
    ELSE AccumulateUp(acc * 10 + DigitVal(Head(s)), Tail(s))

\* from_str_radix on a number with a minus sign: for each digit,
\* result.checked_mul(10) then checked_sub(digit).
RECURSIVE AccumulateDown(_, _)
AccumulateDown(acc, s) ==
    IF s = <<>> THEN Ok(acc)
    ELSE IF acc < 0 - (I32Max \div 10) THEN Err("NegOverflow")
    ELSE IF acc * 10 < I32Min + DigitVal(Head(s)) THEN Err("NegOverflow")
    ELSE AccumulateDown(acc * 10 - DigitVal(Head(s)), Tail(s))

\* str::parse::<i32>: an optional sign, then at least one ASCII digit and
\* nothing else; a value outside i32 is an error.
ParseI32(s) ==
    IF s = <<>> THEN Err("Empty")
    ELSE LET signed == Head(s) \in {"+", "-"}
             digits == IF signed THEN Tail(s) ELSE s
         IN  IF digits = <<>> THEN Err("InvalidDigit")
             ELSE IF \E k \in 1..Len(digits) : digits[k] \notin Digits
                  THEN Err("InvalidDigit")
             ELSE IF Head(s) = "-" THEN AccumulateDown(0, digits)
             ELSE AccumulateUp(0, digits)

\* line.len() < 2
TooShortTest(line) == ByteLen(line) < 2

\* parse_rotation
parse_rotation(line) ==
    IF TooShortTest(line) THEN Err("TooShort")
    ELSE IF Head(line) \notin {"L", "R"} THEN Err("InvalidDirection")
    ELSE LET n == ParseI32(Tail(line))
         IN  IF ~n.ok THEN Err("InvalidMagnitude")
             ELSE Ok(<<Head(line), n.val>>)

-----------------------------------------------------------------------------
(* Arithmetic of the simulator *)

\* Rust's % on i32: the remainder takes the sign of the dividend.
RustRem(a, b) == IF a >= 0 THEN a % b ELSE 0 - ((0 - a) % b)

\* Mutant: the Right arm without the wrap.
StepRightNoWrap(c) == c + 1

\* 'R' => current = (current + 1) % 100
StepRight(c) == RustRem(c + 1, DialSize)

\* Mutant: the Left arm without the + 100.
StepLeftNoBias(c) == RustRem(c - 1, DialSize)

\* 'L' => current = (current - 1 + 100) % 100
StepLeft(c) == RustRem(c - 1 + DialSize, DialSize)

\* Mutant: the range 0..=distance.
InRangeInclusive(n, d) == n <= d

\* Mutant: the range 0..distance.abs().
InRangeAbs(n, d) == n < (IF d < 0 THEN 0 - d ELSE d)

\* for _ in 0..distance: the range yields while i < distance
InRange(n, d) == n < d

-----------------------------------------------------------------------------
(* Inputs *)

BoundedSeq(S, n) == UNION {[1..k -> S] : k \in 0..n}

\* Lines that parse: a direction and a signed decimal magnitude.
ValidLines ==
    { <<"R", "5", "0">>, <<"L", "5", "0">>, <<"R", "2", "5">>,
      <<"L", "2", "5">>, <<"R", "1", "0">>, <<"L", "6", "0">>,
      <<"R", "1", "5", "0">>, <<"L", "1", "0", "1">>, <<"R", "0">>,
      <<"R", "-", "5">>, <<"L", "-", "1">>, <<"R", "+", "7">>,
      <<" ", "L", "0", "9", "\t">> }

\* Lines that are blank after trim, and lines that do not parse.
OtherLines ==
    { <<>>, <<" ">>, <<"L">>, <<"R">>, <<"7">>, <<"e'">>,
      <<"l", "5">>, <<"5", "0">>, <<"x", "y">>, <<"e'", "5">>,
      <<"R", "5", "x">>, <<"R", "-">>, <<"L", " ", "5">>, <<"R", "e'">>,
      <<"B", "O", "G", "U", "S">>,
      <<"R", "2", "1", "4", "7", "4", "8", "3", "6", "4", "8">> }

LineSet == ValidLines \cup OtherLines

\* The scenario of four lines: R10, a blank line, BOGUS, L60.
Scenarios ==
    { << <<"R", "1", "0">>, <<>>, <<"B", "O", "G", "U", "S">>,
         <<"L", "6", "0">> >> }

Inputs == BoundedSeq(LineSet, MaxLines) \cup Scenarios

\* The inputs of the runs checked for termination: every kind of line, the
\* longest rotations, fewer lines of each kind.
FairLines ==
    { <<"R", "1", "5", "0">>, <<"L", "1", "0", "1">>, <<"L", "6", "0">>,
      <<"R", "0">>, <<"R", "-", "5">>, <<" ", "L", "0", "9", "\t">>,
      <<>>, <<" ">>, <<"L">>, <<"e'">>, <<"R", "5", "x">>,
      <<"B", "O", "G", "U", "S">> }

FairInputs == BoundedSeq(FairLines, MaxLines) \cup Scenarios

-----------------------------------------------------------------------------
(* apply_rotation_with_zero_count *)

\* Function entry: let mut current = position; let mut zero_count = 0;
Enter(p, d, m) ==
    /\ start' = p
    /\ direction' = d
    /\ distance' = m
    /\ current' = p
    /\ zero_count' = 0
    /\ i' = 0
    /\ pc' = "rotate"

\* Mutant: the two arms of the match exchanged.
MovedSwapped(c, d) == IF d = "R" THEN StepLeft(c) ELSE StepRight(c)

\* The position after one pass of the match, for a direction it moves on.
Moved(c, d) == IF d = "R" THEN StepRight(c) ELSE StepLeft(c)

\* if current == 0 { zero_count += 1; }
Counted(z, c) == IF c = 0 THEN z + 1 ELSE z

\* Mutant: the test for zero made before the move instead of after it.
LoopBodyCheckFirst(c, z, d) == <<Moved(c, d), Counted(z, c)>>

\* The body of the for loop: the move, then the test of the new position.
LoopBody(c, z, d) == <<Moved(c, d), Counted(z, Moved(c, d))>>

\* The loop runs its body: the range yields and the match does not break.
LoopRuns == InRange(i, distance) /\ direction \in {"L", "R"}

\* One iteration of the for loop.
RotateStep ==
    /\ pc = "rotate"
    /\ LoopRuns
    /\ current' = LoopBody(current, zero_count, direction)[1]
    /\ zero_count' = LoopBody(current, zero_count, direction)[2]
    /\ i' = i + 1
    /\ UNCHANGED <<lines, idx, position, count, warnings, pc, start,
                   direction, distance, ret, plan, rets>>

\* The loop is over (range exhausted, or break): (current, zero_count)
RotateReturn ==
    /\ pc = "rotate"
    /\ ~LoopRuns
    /\ ret' = <<current, zero_count>>
    /\ pc' = "returned"
    /\ UNCHANGED <<lines, idx, position, count, warnings, start, direction,
                   distance, current, zero_count, i, plan, rets>>

-----------------------------------------------------------------------------
(* solve_puzzle *)

\* The state in which solve_puzzle enters its for loop, for an input of S.
Start(S) ==
    /\ lines \in S
    /\ idx = 0
    /\ position = InitialPosition
    /\ count = 0
    /\ warnings = <<>>
    /\ pc = "lines"
    /\ start = InitialPosition
    /\ direction = "R"
    /\ distance = 0
    /\ current = InitialPosition
    /\ zero_count = 0
    /\ i = 0
    /\ ret = <<InitialPosition, 0>>
    /\ plan = [p |-> InitialPosition, m1 |-> 0, m2 |-> 0]
    /\ rets = <<>>

Init == Start(Inputs)

\* The line the for loop takes next, after let line = line.trim()
NextLine == Trim(lines[idx + 1])

\* Mutant: the blank line is never left behind.
SolveSkipEmptyStuck ==
    /\ pc = "lines"
    /\ idx < Len(lines)
    /\ NextLine = <<>>
    /\ UNCHANGED vars

\* if line.is_empty() { continue; }
SolveSkipEmpty ==
    /\ pc = "lines"
    /\ idx < Len(lines)
    /\ NextLine = <<>>
    /\ idx' = idx + 1
    /\ UNCHANGED <<lines, position, count, warnings, pc, start, direction,
                   distance, current, zero_count, i, ret, plan, rets>>

\* Mutant: break instead of continue after the warning.
SolveParseErrBreak ==
    /\ pc = "lines"
    /\ idx < Len(lines)
    /\ NextLine # <<>>
    /\ ~parse_rotation(NextLine).ok
    /\ warnings' = Append(warnings, <<NextLine, parse_rotation(NextLine).val>>)
    /\ idx' = idx + 1
    /\ pc' = "done"
    /\ UNCHANGED <<lines, position, count, start, direction, distance,
                   current, zero_count, i, ret, plan, rets>>

\* Err(e) => { eprintln!(...); continue; }
SolveParseErr ==
    /\ pc = "lines"
    /\ idx < Len(lines)
    /\ NextLine # <<>>
    /\ ~parse_rotation(NextLine).ok
    /\ warnings' = Append(warnings, <<NextLine, parse_rotation(NextLine).val>>)
    /\ idx' = idx + 1
    /\ UNCHANGED <<lines, position, count, pc, start, direction, distance,
                   current, zero_count, i, ret, plan, rets>>

\* Ok((direction, distance)) => apply_rotation_with_zero_count(position, ..)
SolveCall ==
    /\ pc = "lines"
    /\ idx < Len(lines)
    /\ NextLine # <<>>
    /\ parse_rotation(NextLine).ok
    /\ Enter(position, parse_rotation(NextLine).val[1],
             parse_rotation(NextLine).val[2])
    /\ idx' = idx + 1
    /\ UNCHANGED <<lines, position, count, warnings, ret, plan, rets>>

\* Mutant: count = zeros_during_rotation instead of +=.
SolveAssign ==
    /\ pc = "returned"
    /\ position' = ret[1]
    /\ count' = ret[2]
    /\ rets' = Append(rets, ret)
    /\ pc' = "lines"
    /\ UNCHANGED <<lines, idx, warnings, start, direction, distance,
                   current, zero_count, i, ret, plan>>

\* position = new_position; count += zeros_during_rotation;
SolveAccumulate ==
    /\ pc = "returned"
    /\ position' = ret[1]
    /\ count' = count + ret[2]
    /\ rets' = Append(rets, ret)
    /\ pc' = "lines"
    /\ UNCHANGED <<lines, idx, warnings, start, direction, distance,
                   current, zero_count, i, ret, plan>>

\* The lines are exhausted: solve_puzzle returns count.
SolveReturn ==
    /\ pc = "lines"
    /\ idx = Len(lines)
    /\ pc' = "done"
    /\ UNCHANGED <<lines, idx, position, count, warnings, start, direction,
                   distance, current, zero_count, i, ret, plan, rets>>

Next ==
    \/ SolveSkipEmpty
    \/ SolveParseErr
    \/ SolveCall
    \/ RotateStep
    \/ RotateReturn
    \/ SolveAccumulate
    \/ SolveReturn

Spec == Init /\ [][Next]_vars

\* solve_puzzle is sequential code: whatever step is enabled is taken.
FairSpec == Start(FairInputs) /\ [][Next]_vars /\ WF_vars(Next)

-----------------------------------------------------------------------------
(* apply_rotation_with_zero_count called on its own *)

SimInit ==
    /\ lines = <<>>
    /\ idx = 0
    /\ position = InitialPosition
    /\ count = 0
    /\ warnings = <<>>
    /\ pc = "rotate"
    /\ start \in 0..(DialSize - 1)
    /\ direction \in {"L", "R", "x"}
    /\ distance \in (0 - NegMag)..MaxMag
    /\ current = start
    /\ zero_count = 0
    /\ i = 0
    /\ ret = <<InitialPosition, 0>>
    /\ plan = [p |-> InitialPosition, m1 |-> 0, m2 |-> 0]
    /\ rets = <<>>

SimNext == RotateStep \/ RotateReturn

SimSpec == SimInit /\ [][SimNext]_vars

-----------------------------------------------------------------------------
(* Two consecutive calls in one direction, then one call for the whole *)

ComposeInit ==
    /\ lines = <<>>
    /\ idx = 0
    /\ position = InitialPosition
    /\ count = 0
    /\ warnings = <<>>
    /\ pc = "rotate"
    /\ plan \in [p : 0..(DialSize - 1), m1 : 0..MaxPart, m2 : 0..MaxPart]
    /\ start = plan.p
    /\ direction \in {"L", "R"}
    /\ distance = plan.m1
    /\ current = start
    /\ zero_count = 0
    /\ i = 0
    /\ ret = <<InitialPosition, 0>>
    /\ rets = <<>>

\* The second part starts where the first part ended.
CallSecond ==
    /\ pc = "returned"
    /\ Len(rets) = 0
    /\ rets' = Append(rets, ret)
    /\ Enter(ret[1], direction, plan.m2)
    /\ UNCHANGED <<lines, idx, position, count, warnings, ret, plan>>

\* The whole rotation, from the first position again.
CallWhole ==
    /\ pc = "returned"
    /\ Len(rets) = 1
    /\ rets' = Append(rets, ret)
    /\ Enter(plan.p, direction, plan.m1 + plan.m2)
    /\ UNCHANGED <<lines, idx, position, count, warnings, ret, plan>>

ComposeNext == RotateStep \/ RotateReturn \/ CallSecond \/ CallWhole

ComposeSpec == ComposeInit /\ [][ComposeNext]_vars

-----------------------------------------------------------------------------
(* Reference arithmetic of the properties: the dial as the integers mod 100 *)

Max0(m) == IF m > 0 THEN m ELSE 0

\* Number of k in 1..m whose step lands on 0, going right or left from p.
HitsRight(p, m) == Cardinality({k \in 1..m : (p + k) % DialSize = 0})
HitsLeft(p, m)  == Cardinality({k \in 1..m : (p - k) % DialSize = 0})

\* Where m unit steps from p end, and how many of them land on 0.
Turn(p, d, m) ==
    IF d = "R"
    THEN <<(p + Max0(m)) % DialSize, HitsRight(p, Max0(m))>>
    ELSE <<(p - Max0(m)) % DialSize, HitsLeft(p, Max0(m))>>

\* The lines that are neither blank nor malformed, and their commands.
Kept(ls) ==
    SelectSeq(ls, LAMBDA l : Trim(l) # <<>> /\ parse_rotation(Trim(l)).ok)

Commands(ls) == [k \in 1..Len(ls) |-> parse_rotation(Trim(ls[k])).val]

\* Total of the hits of the commands cs applied in order from p.
RECURSIVE Password(_, _)
Password(p, cs) ==
    IF cs = <<>> THEN 0
    ELSE LET t == Turn(p, Head(cs)[1], Head(cs)[2])
         IN  t[2] + Password(t[1], Tail(cs))

RECURSIVE SumHits(_)
SumHits(rs) == IF rs = <<>> THEN 0 ELSE Head(rs)[2] + SumHits(Tail(rs))

OnDial(x) == x \in 0..(DialSize - 1)

-----------------------------------------------------------------------------
(* Properties *)

\* C1: for every start p in [0,100) and magnitude m >= 0, the zero_hits
\* returned equals the number of k in [1, m] with (p + k) mod 100 = 0 for
\* Right and (p - k) mod 100 = 0 for Left: every step counts, so R150 from
\* 50 returns 2.
C1_ZeroHitsCountEveryStep ==
    (pc = "returned" /\ distance >= 0) =>
        /\ direction = "R" => ret[2] = HitsRight(start, distance)
        /\ direction = "L" => ret[2] = HitsLeft(start, distance)
        /\ (start = 50 /\ direction = "R" /\ distance = 150) => ret[2] = 2

C1_Witness ==
    /\ pc = "returned"
    /\ start = 50 /\ direction = "R" /\ distance = 150
    /\ ret[2] = 2

\* C2: for every start p in [0,100) and magnitude m >= 0, the new position
\* returned is (p + m) mod 100 for Right and (p - m) mod 100, taken
\* non-negative, for Left.
C2_NewPositionIsModularSum ==
    (pc = "returned" /\ distance >= 0) =>
        /\ direction = "R" => ret[1] = (start + distance) % DialSize
        /\ direction = "L" => ret[1] = (start - distance) % DialSize

C2_Witness ==
    /\ pc = "returned"
    /\ start = 3 /\ direction = "L" /\ distance = 104
    /\ ret[1] = 99

\* C3: in a run of solve_puzzle the dial position is in [0,100) in every
\* state: at the start, after every unit step inside a rotation (a Left
\* step from 0 gives 99, nothing negative), and after every line.
C3_PositionStaysOnDial ==
    /\ OnDial(position)
    /\ OnDial(current)
    /\ OnDial(ret[1])
    /\ (idx = 0 /\ pc = "lines") => position = 50

C3_Witness ==
    /\ pc = "rotate"
    /\ direction = "L"
    /\ i > 0
    /\ zero_count = 1
    /\ current = 99

\* C4 as stated: for every position in [0,100), direction and integer
\* magnitude, new_position is in [0,100), zero_hits >= 0 and
\* zero_hits <= magnitude.
C4_Original ==
    pc = "returned" =>
        /\ OnDial(ret[1])
        /\ ret[2] >= 0
        /\ ret[2] <= distance

\* C4 amended: for every position in [0,100), direction and integer
\* magnitude, new_position is in [0,100), zero_hits >= 0 and
\* zero_hits <= max(magnitude, 0).
C4_HitsAtMostStepsTaken ==
    pc = "returned" =>
        /\ OnDial(ret[1])
        /\ ret[2] >= 0
        /\ ret[2] <= Max0(distance)

C4_Witness ==
    /\ pc = "returned"
    /\ distance < 0
    /\ start = 0
    /\ ret = <<0, 0>>

\* What C5 says parse_rotation returns for a line.
C5_Expected(line) ==
    IF Len(line) < 2 THEN Err("TooShort")
    ELSE IF Head(line) \notin {"L", "R"} THEN Err("InvalidDirection")
    ELSE IF ~ParseI32(Tail(line)).ok THEN Err("InvalidMagnitude")
    ELSE Ok(<<Head(line), ParseI32(Tail(line)).val>>)

\* C5: parse_rotation reports the first check that fails: fewer than 2
\* characters is TooShort (whatever the single character is); else a first
\* character other than 'L' or 'R' is InvalidDirection; else a remainder
\* that is no signed decimal integer is InvalidMagnitude; else it succeeds
\* with that direction and that integer.
C5_ChecksInOrder ==
    [][ (pc = "lines" /\ idx < Len(lines) /\ NextLine # <<>>) =>
          IF C5_Expected(NextLine).ok
          THEN /\ pc' = "rotate"
               /\ <<direction', distance'>> = C5_Expected(NextLine).val
          ELSE /\ pc' = "lines"
               /\ warnings' =
                    Append(warnings, <<NextLine, C5_Expected(NextLine).val>>)
      ]_vars

\* C6: a blank line or a line that fails to parse leaves position and count
\* unchanged and the run goes on to the next line; so the final password is
\* the password of the input without its blank and malformed lines.
C6_BadLinesChangeNothing ==
    /\ [][ ( /\ pc = "lines"
             /\ idx < Len(lines)
             /\ (NextLine = <<>> \/ ~parse_rotation(NextLine).ok) ) =>
           ( /\ position' = position
             /\ count' = count
             /\ idx' = idx + 1
             /\ pc' = "lines" )
         ]_vars
    /\ [](pc = "done" =>
            count = Password(InitialPosition, Commands(Kept(lines))))

C6_Witness ==
    /\ pc = "done"
    /\ lines = << <<"R", "1", "0">>, <<>>, <<"B", "O", "G", "U", "S">>,
                  <<"L", "6", "0">> >>
    /\ Len(warnings) = 1
    /\ rets = << <<60, 0>>, <<0, 1>> >>
    /\ count = 1

C8_NegativeLine(l) ==
    /\ Len(l) \in {3, 4}
    /\ l[1] \in {"L", "R"}
    /\ l[2] = "-"
    /\ \A k \in 3..Len(l) : l[k] \in Digits

C8_Value(l) ==
    IF Len(l) = 3 THEN 0 - DigitVal(l[3])
    ELSE 0 - (10 * DigitVal(l[3]) + DigitVal(l[4]))

\* C8: a line with a negative magnitude text such as R-5 is accepted and
\* yields the negative magnitude; the simulator takes no step for a
\* magnitude <= 0, so the line leaves position and count as they were.
C8_NegativeMagnitudeIsNoOp ==
    [][ /\ (pc = "lines" /\ idx < Len(lines) /\ C8_NegativeLine(NextLine)) =>
             /\ pc' = "rotate"
             /\ direction' = NextLine[1]
             /\ distance' = C8_Value(NextLine)
        /\ (pc = "rotate" /\ distance <= 0) =>
             (pc' = "returned" /\ ret' = <<start, 0>>)
        /\ (pc = "returned" /\ distance <= 0) =>
             (position' = position /\ count' = count)
      ]_vars

C8_Witness ==
    /\ pc = "done"
    /\ lines = << <<"L", "5", "0">>, <<"R", "-", "5">> >>
    /\ distance = 0 - 5
    /\ warnings = <<>>
    /\ position = 0
    /\ count = 1

C10_RotationsCompose ==
    (pc = "returned" /\ Len(rets) = 2) =>
        /\ ret[1] = rets[2][1]
        /\ ret[2] = rets[1][2] + rets[2][2]

C10_Witness ==
    /\ pc = "returned"
    /\ Len(rets) = 2
    /\ plan = [p |-> 95, m1 |-> 3, m2 |-> 4]
    /\ direction = "R"
    /\ rets = << <<98, 0>>, <<2, 1>> >>
    /\ ret = <<2, 1>>

====
